---- MODULE Spec2Model ----
(***************************************************************************)
(* A model of three parts of the zk_evm witness generator:                 *)
(*   - the driver loop of generate_traces (src/src/generation/mod.rs),     *)
(*   - the memory-continuation table (memory_continuation_stark.rs),       *)
(*   - the Poseidon-sponge column map (poseidon_sponge/columns.rs).        *)
(* Each part has its own specification; the variables of the other parts   *)
(* stay at their idle values.                                              *)
(***************************************************************************)
EXTENDS Integers, Sequences, FiniteSets, TLC

VARIABLES
    \* generate_traces
    program_counter,    \* state.registers.program_counter
    clock,              \* state.traces.clock()
    memory,             \* state.memory, restricted to the GlobalMetadata digests
    phase,              \* position in generate_traces: "idle", "loop", "halted", "returned"
    output,             \* the returned (tables, PublicValues), None before the return
    first_halt_clock,   \* history: clock of the first loop check that saw a halt pc, -1 before
    \* memory continuation
    mem_before_values,  \* the (address, value) pairs handed to mem_before_values_to_rows
    final_values,       \* the row buffer handed to generate_trace
    trace,              \* the columns generate_trace returned
    stage,              \* "idle", "input", "rows", "traced"
    \* Poseidon sponge columns
    rate,               \* POSEIDON_SPONGE_RATE
    width,              \* POSEIDON_SPONGE_WIDTH
    flat,               \* a [T; NUM_POSEIDON_SPONGE_COLUMNS] row
    written             \* the <<field, element>> written through the borrowed view, <<>> before

driver_vars == <<program_counter, clock, memory, phase, output, first_halt_clock>>
cont_vars == <<mem_before_values, final_values, trace, stage>>
col_vars == <<rate, width, flat, written>>
vars == <<driver_vars, cont_vars, col_vars>>

None == "None"

DriverIdle ==
    /\ program_counter = 0
    /\ clock = 0
    /\ memory = 0
    /\ phase = "idle"
    /\ output = None
    /\ first_halt_clock = -1

ContIdle ==
    /\ mem_before_values = <<>>
    /\ final_values = <<>>
    /\ trace = <<>>
    /\ stage = "idle"

ColIdle ==
    /\ rate = 0
    /\ width = 0
    /\ flat = <<>>
    /\ written = <<>>

(***************************************************************************)
(* generate_traces: the driver loop.                                       *)
(***************************************************************************)

\* Bounds of the driver model.
MaxPC == 3
MaxBootClock == 2
MaxClock == 9
MaxHitClock == 38
MaxMemory == 1

\* KERNEL.global_labels["halt_pc0"], KERNEL.global_labels["halt_pc1"]
halt_pc0 == 2
halt_pc1 == 3

PCs == 0..MaxPC
MemoryImages == 0..MaxMemory

RECURSIVE count_ones(_)
count_ones(n) == IF n = 0 THEN 0 ELSE (n % 2) + count_ones(n \div 2)

\* usize::is_power_of_two: exactly one bit set, so false for 0
is_power_of_two(n) == count_ones(n) = 1

in_halt_loop(pc) == pc = halt_pc0 \/ pc = halt_pc1

\* Faulty variants of the loop's exit test.
BreakZeroIsPower(pc, clk) == in_halt_loop(pc) /\ (clk = 0 \/ is_power_of_two(clk))
BreakIgnoresClock(pc, clk) == in_halt_loop(pc)
BreakEither(pc, clk) == in_halt_loop(pc) \/ is_power_of_two(clk)

\* The test of the `if` at the top of the loop body.
break_condition(pc, clk) == in_halt_loop(pc) /\ is_power_of_two(clk)

\* The history variable: the clock at the first loop check with a halt pc.
NoteHalt ==
    first_halt_clock' =
        IF first_halt_clock = -1 /\ in_halt_loop(program_counter')
        THEN clock'
        ELSE first_halt_clock

\* GenerationState::new and generate_bootstrap_kernel: the state at the first check.
DriverInit ==
    /\ program_counter \in PCs
    /\ clock \in 0..MaxBootClock
    /\ memory \in MemoryImages
    /\ phase = "loop"
    /\ output = None
    /\ first_halt_clock = IF in_halt_loop(program_counter) THEN clock ELSE -1

\* One loop iteration that takes the `break`.
Break ==
    /\ phase = "loop"
    /\ break_condition(program_counter, clock)
    /\ phase' = "halted"
    /\ UNCHANGED <<program_counter, clock, memory, output, first_halt_clock>>

\* transition(&mut state) for an arbitrary program: one more CPU row, any next pc.
transition ==
    /\ clock < MaxClock
    /\ clock' = clock + 1
    /\ program_counter' \in PCs
    /\ memory' \in MemoryImages

\* transition(&mut state) for a kernel whose halt routine jumps between halt_pc0 and
\* halt_pc1 for ever.
transition_kernel ==
    /\ clock' = clock + 1
    /\ IF in_halt_loop(program_counter)
       THEN /\ program_counter' = IF program_counter = halt_pc0 THEN halt_pc1 ELSE halt_pc0
            /\ memory' = memory
       ELSE /\ clock < MaxHitClock
            /\ program_counter' \in PCs
            /\ memory' \in MemoryImages

\* One loop iteration that does not break: it calls transition.
Step ==
    /\ phase = "loop"
    /\ ~break_condition(program_counter, clock)
    /\ transition
    /\ NoteHalt
    /\ UNCHANGED <<phase, output>>

StepKernel ==
    /\ phase = "loop"
    /\ ~break_condition(program_counter, clock)
    /\ transition_kernel
    /\ NoteHalt
    /\ UNCHANGED <<phase, output>>

\* After the loop: read the digests, build PublicValues and the tables.
Finish ==
    /\ phase = "halted"
    /\ phase' = "returned"
    /\ output' = [public_values |-> memory, cpu_rows |-> clock]
    /\ UNCHANGED <<program_counter, clock, memory, first_halt_clock>>

Init == DriverInit /\ ContIdle /\ ColIdle

Next ==
    \/ Break /\ UNCHANGED <<cont_vars, col_vars>>
    \/ Step /\ UNCHANGED <<cont_vars, col_vars>>
    \/ Finish /\ UNCHANGED <<cont_vars, col_vars>>

Spec == Init /\ [][Next]_vars

NextHaltLoop ==
    \/ Break /\ UNCHANGED <<cont_vars, col_vars>>
    \/ StepKernel /\ UNCHANGED <<cont_vars, col_vars>>
    \/ Finish /\ UNCHANGED <<cont_vars, col_vars>>

\* The loop is the only thread of the generation: it always makes its next step.
SpecHaltLoop == Init /\ [][NextHaltLoop]_vars /\ WF_vars(NextHaltLoop)

(***************************************************************************)
(* Numbers wider than TLC's 32-bit integers are little-endian sequences     *)
(* of 16-bit digits: a U256 has 16 digits, a u32 has 2, a field element    *)
(* (a canonical u64) has 4.                                                *)
(***************************************************************************)

Base == 2^16
DigitBitCount == 32 \div 2
U256Digits == 256 \div DigitBitCount
FieldDigits == 64 \div DigitBitCount

Digit(v, i) == IF i \in 1..Len(v) THEN v[i] ELSE 0

\* U256 >> n
U256_shr(v, n) ==
    LET ds == n \div DigitBitCount
        bs == n % DigitBitCount
    IN  [i \in 1..U256Digits |->
            (Digit(v, i + ds) \div 2^bs)
            + (Digit(v, i + ds + 1) % 2^bs) * 2^(DigitBitCount - bs)]

\* U256::low_u32: the low 32 bits
low_u32(v) == <<v[1], v[2]>>

\* F::ZERO, F::ONE
F_ZERO == [i \in 1..FieldDigits |-> 0]
F_ONE == [i \in 1..FieldDigits |-> IF i = 1 THEN 1 ELSE 0]

\* F::from_canonical_u32: the same number as a field element
from_canonical_u32(x) == [i \in 1..FieldDigits |-> Digit(x, i)]

\* F::from_canonical_usize, for the usize values of the model (below 2^31)
from_canonical_usize(n) ==
    [i \in 1..FieldDigits |->
        IF i = 1 THEN n % Base ELSE IF i = 2 THEN (n \div Base) % Base ELSE 0]

(***************************************************************************)
(* The memory-continuation table.                                          *)
(***************************************************************************)

\* memory_continuation::columns and memory::VALUE_LIMBS
FILTER == 0
ADDR_CONTEXT == 1
ADDR_SEGMENT == 2
ADDR_VIRTUAL == 3
VALUE_LIMBS == 8
NUM_COLUMNS == 12
value_limb(i) == 4 + i

\* Segment::GlobalMetadata as usize
GlobalMetadata == 7

\* starky::lookup::Column, as far as the table uses it
Column_single(c) == [kind |-> "single", col |-> c, constant |-> F_ZERO]
Column_constant(k) == [kind |-> "constant", col |-> 0, constant |-> k]
Column_singles(cs) == [i \in 1..Len(cs) |-> Column_single(cs[i])]
Column_eval(column, row) ==
    IF column.kind = "single" THEN row[column.col + 1] ELSE column.constant

\* A faulty variant of ctl_data_memory: the TIMESTAMP constant is missing.
CtlDataMemoryNoTimestamp ==
    <<Column_constant(F_ZERO)>>
    \o Column_singles(<<ADDR_CONTEXT, ADDR_SEGMENT, ADDR_VIRTUAL>>)
    \o Column_singles([i \in 1..8 |-> value_limb(i - 1)])

ctl_data ==
    Column_singles(<<ADDR_CONTEXT, ADDR_SEGMENT, ADDR_VIRTUAL>>)
    \o Column_singles([i \in 1..8 |-> value_limb(i - 1)])

ctl_filter == Column_single(FILTER)

ctl_data_memory ==
    <<Column_constant(F_ZERO)>>
    \o Column_singles(<<ADDR_CONTEXT, ADDR_SEGMENT, ADDR_VIRTUAL>>)
    \o Column_singles([i \in 1..8 |-> value_limb(i - 1)])
    \o <<Column_constant(F_ZERO)>>

ZeroRow == [c \in 1..NUM_COLUMNS |-> F_ZERO]

\* Faulty variants of the limb written at row[j + 4].
LimbBigEndian(value, j) ==
    from_canonical_u32(low_u32(U256_shr(value, (VALUE_LIMBS - 1 - j) * 32)))
LimbSixteenBits(value, j) ==
    from_canonical_u32(low_u32(U256_shr(value, j * 16)))

\* F::from_canonical_u32((mem_data.1 >> (j * 32)).low_u32())
limb(value, j) == from_canonical_u32(low_u32(U256_shr(value, j * 32)))

\* for j in 0..VALUE_LIMBS { row[j + 4] = limb j }
RECURSIVE write_limbs(_, _, _)
write_limbs(row, value, j) ==
    IF j >= VALUE_LIMBS THEN row
    ELSE write_limbs([row EXCEPT ![j + 4 + 1] = limb(value, j)], value, j + 1)

\* A faulty variant of the closure of mem_before_values_to_rows: no filter.
RowWithoutFilter(mem_data) ==
    LET r1 == [ZeroRow EXCEPT ![ADDR_CONTEXT + 1] = from_canonical_usize(mem_data[1].context)]
        r2 == [r1 EXCEPT ![ADDR_SEGMENT + 1] = from_canonical_usize(mem_data[1].segment)]
        r3 == [r2 EXCEPT ![ADDR_VIRTUAL + 1] = from_canonical_usize(mem_data[1].virt)]
    IN  write_limbs(r3, mem_data[2], 0)

\* The closure of mem_before_values_to_rows: one row for one (address, value) pair.
row_of(mem_data) ==
    LET r0 == [ZeroRow EXCEPT ![FILTER + 1] = F_ONE]
        r1 == [r0 EXCEPT ![ADDR_CONTEXT + 1] = from_canonical_usize(mem_data[1].context)]
        r2 == [r1 EXCEPT ![ADDR_SEGMENT + 1] = from_canonical_usize(mem_data[1].segment)]
        r3 == [r2 EXCEPT ![ADDR_VIRTUAL + 1] = from_canonical_usize(mem_data[1].virt)]
    IN  write_limbs(r3, mem_data[2], 0)

mem_before_values_to_rows(values) == [i \in 1..Len(values) |-> row_of(values[i])]

RECURSIVE power_of_two_from(_, _)
power_of_two_from(n, p) == IF p >= n THEN p ELSE power_of_two_from(n, 2 * p)

\* usize::next_power_of_two: the smallest power of two >= n (1 for 0)
next_power_of_two(n) == power_of_two_from(n, 1)

max(a, b) == IF a >= b THEN a ELSE b

\* plonky2::util::transpose
transpose(rows) ==
    [c \in 1..Len(rows[1]) |-> [r \in 1..Len(rows) |-> rows[r][c]]]

\* Faulty variants of the padded row count.
PaddedNoMinimum(num_rows) == next_power_of_two(num_rows)
PaddedNoPowerOfTwo(num_rows) == max(16, num_rows)
PaddedOffByOne(num_rows) == max(16, next_power_of_two(num_rows + 1))

\* let num_rows_padded = max(16, num_rows.next_power_of_two());
num_rows_padded(num_rows) == max(16, next_power_of_two(num_rows))

\* MemoryContinuationStark::generate_trace
generate_trace(values) ==
    LET num_rows == Len(values)
        rows == values \o [i \in 1..(num_rows_padded(num_rows) - num_rows) |-> ZeroRow]
    IN  transpose(rows)

\* Bounds of the continuation model: the longest input, and the length up to which
\* its pairs are chosen freely (the pairs after that repeat the last free one).
MaxRows == 17
MaxPrefix == 2

U256Zero == [i \in 1..U256Digits |-> 0]
MemoryAddress(context, segment, virt) ==
    [context |-> context, segment |-> segment, virt |-> virt]

\* The (address, value) pairs the inputs are made of: 42, 2^256 - 1, a value whose
\* digits are all different, 2^32, 2^32 - 1, 2^255 + 2^31, and 0.
Pairs ==
    { <<MemoryAddress(0, GlobalMetadata, 5), [U256Zero EXCEPT ![1] = 42]>>,
      <<MemoryAddress(1, 0, Base + 5), [i \in 1..U256Digits |-> Base - 1]>>,
      <<MemoryAddress(0, 1, 0), [i \in 1..U256Digits |-> 4095 * i]>>,
      <<MemoryAddress(2, GlobalMetadata, 7), [U256Zero EXCEPT ![3] = 1]>>,
      <<MemoryAddress(0, 0, 1), [i \in 1..U256Digits |-> IF i <= 2 THEN Base - 1 ELSE 0]>>,
      <<MemoryAddress(3, 2, 2^30 + Base - 1), [U256Zero EXCEPT ![16] = 2^15, ![2] = 2^15]>>,
      <<MemoryAddress(0, GlobalMetadata, 6), U256Zero>> }

SeqsUpTo(S, n) == UNION {[1..k -> S] : k \in 0..n}

Inputs ==
    { [i \in 1..(Len(p) + k) |-> IF i <= Len(p) THEN p[i] ELSE p[Len(p)]] :
        <<p, k>> \in { <<q, e>> \in SeqsUpTo(Pairs, MaxPrefix) \X (0..(MaxRows - MaxPrefix)) :
                            e = 0 \/ Len(q) = MaxPrefix } }

ContInit ==
    /\ mem_before_values \in Inputs
    /\ final_values = <<>>
    /\ trace = <<>>
    /\ stage = "input"

\* mem_before_values_to_rows(&mem_before_values)
ToRows ==
    /\ stage = "input"
    /\ final_values' = mem_before_values_to_rows(mem_before_values)
    /\ stage' = "rows"
    /\ UNCHANGED <<mem_before_values, trace>>

\* stark.generate_trace(final_values, timing)
GenerateTrace ==
    /\ stage = "rows"
    /\ trace' = generate_trace(final_values)
    /\ stage' = "traced"
    /\ UNCHANGED <<mem_before_values, final_values>>

\* generate_trace again, on the rows of the table it returned
Regenerate ==
    /\ stage = "traced"
    /\ final_values' = transpose(trace)
    /\ trace' = generate_trace(transpose(trace))
    /\ UNCHANGED <<mem_before_values, stage>>

InitCont == DriverIdle /\ ContInit /\ ColIdle

NextCont ==
    \/ ToRows /\ UNCHANGED <<driver_vars, col_vars>>
    \/ GenerateTrace /\ UNCHANGED <<driver_vars, col_vars>>
    \/ Regenerate /\ UNCHANGED <<driver_vars, col_vars>>

SpecCont == InitCont /\ [][NextCont]_vars

(***************************************************************************)
(* The Poseidon-sponge column view.                                        *)
(***************************************************************************)

\* Bounds of the column model: the sponge parameters are drawn from 1..MaxRate and
\* 1..MaxWidth.
MaxRate == 8
MaxWidth == 12

\* The fields of PoseidonSpongeColumnsView, in declaration order.
FieldNames ==
    << "is_full_input_block", "context", "segment", "virt", "timestamp", "len",
       "already_absorbed_elements", "is_final_input_len", "block", "input_state",
       "updated_digest" >>

\* The number of T values a field holds.
field_len(f, RATE, WIDTH) ==
    CASE FieldNames[f] = "is_final_input_len" -> RATE
      [] FieldNames[f] = "block" -> RATE
      [] FieldNames[f] = "input_state" -> RATE + WIDTH
      [] FieldNames[f] = "updated_digest" -> WIDTH + RATE
      [] OTHER -> 1

\* A faulty variant of the layout: every field, array or not, takes one slot.
FieldOffsetArraysAsOne(f, RATE, WIDTH) == f - 1

\* #[repr(C)]: the fields lie in declaration order, and with a single element type
\* there is no padding: the offset of a field, in elements, is the length of the
\* fields before it.
RECURSIVE field_offset(_, _, _)
field_offset(f, RATE, WIDTH) ==
    IF f = 1 THEN 0
    ELSE field_offset(f - 1, RATE, WIDTH) + field_len(f - 1, RATE, WIDTH)

\* size_of::<PoseidonSpongeColumnsView<u8>>()
NUM_POSEIDON_SPONGE_COLUMNS(RATE, WIDTH) ==
    field_offset(Len(FieldNames), RATE, WIDTH) + field_len(Len(FieldNames), RATE, WIDTH)

\* crate::util::indices_arr::<N>(): [0, 1, ..., N - 1]
indices_arr(N) == [k \in 1..N |-> k - 1]

\* transmute of a [T; N] into the view: each field reads the elements at its offset.
view_from_array(arr, RATE, WIDTH) ==
    [f \in 1..Len(FieldNames) |->
        [i \in 1..field_len(f, RATE, WIDTH) |-> arr[field_offset(f, RATE, WIDTH) + i]]]

\* transmute of the view into a [T; N]: element k is the one of the field lying there.
array_from_view(view, RATE, WIDTH) ==
    [k \in 1..NUM_POSEIDON_SPONGE_COLUMNS(RATE, WIDTH) |->
        LET f == CHOOSE g \in 1..Len(FieldNames) :
                    /\ field_offset(g, RATE, WIDTH) < k
                    /\ k <= field_offset(g, RATE, WIDTH) + field_len(g, RATE, WIDTH)
        IN  view[f][k - field_offset(f, RATE, WIDTH)]]

make_col_map(RATE, WIDTH) ==
    view_from_array(indices_arr(NUM_POSEIDON_SPONGE_COLUMNS(RATE, WIDTH)), RATE, WIDTH)

\* PoseidonSpongeColumnsView::default().into(): a row of zeros, for some parameters.
ColInit ==
    /\ rate \in 1..MaxRate
    /\ width \in 1..MaxWidth
    /\ flat = array_from_view(
                view_from_array([k \in 1..NUM_POSEIDON_SPONGE_COLUMNS(rate, width) |-> 0],
                                rate, width),
                rate, width)
    /\ written = <<>>

\* borrow_mut() of the row as a view, and a write of one element of one field.
WriteField ==
    /\ written = <<>>
    /\ \E f \in 1..Len(FieldNames) : \E i \in 1..field_len(f, rate, width) :
          /\ flat' = [flat EXCEPT ![field_offset(f, rate, width) + i] = 1]
          /\ written' = <<f, i>>
    /\ UNCHANGED <<rate, width>>

\* The element written is read back by its index in the column map,
\* row[POSEIDON_SPONGE_COL_MAP.field[i]], and marked.
ReadThroughMap ==
    /\ written # <<>>
    /\ flat[make_col_map(rate, width)[written[1]][written[2]] + 1] = 1
    /\ flat' = [flat EXCEPT ![make_col_map(rate, width)[written[1]][written[2]] + 1] = 2]
    /\ UNCHANGED written
    /\ UNCHANGED <<rate, width>>

InitCol == DriverIdle /\ ContIdle /\ ColInit

NextCol ==
    \/ WriteField /\ UNCHANGED <<driver_vars, cont_vars>>
    \/ ReadThroughMap /\ UNCHANGED <<driver_vars, cont_vars>>

SpecCol == InitCol /\ [][NextCol]_vars

(***************************************************************************)
(* Properties of the driver loop.                                          *)
(***************************************************************************)

HaltPCs == {halt_pc0, halt_pc1}
PowersOfTwo == {2^k : k \in 0..30}
Exited == phase \in {"halted", "returned"}

\* The smallest power of two that is at least c.
NextPowerAtLeast(c) ==
    CHOOSE p \in PowersOfTwo : p >= c /\ \A q \in PowersOfTwo : q >= c => p <= q

\* C1: the loop stops exactly when, at its check, the pc is a halt pc and the clock
\* is a power of two (0 is not one); in every other state it makes exactly one
\* transition and stays in the loop; once it has stopped it makes no transition. So
\* after the loop the pc is a halt pc and the clock is a power of two.
C1_StopsIffHaltPcAndPowerOfTwo ==
    /\ [](Exited => program_counter \in HaltPCs /\ clock \in PowersOfTwo)
    /\ [][phase = "loop" =>
            IF program_counter \in HaltPCs /\ clock \in PowersOfTwo
            THEN phase' = "halted" /\ clock' = clock /\ program_counter' = program_counter
            ELSE phase' = "loop" /\ clock' = clock + 1]_vars
    /\ [][Exited => clock' = clock /\ program_counter' = program_counter]_vars

\* The loop met a halt pc at clock 3, went on, and stopped at clock 8.
C1_Witness == phase = "halted" /\ first_halt_clock = 3 /\ clock = 8

\* C2: with a kernel whose halt routine keeps the pc in {halt_pc0, halt_pc1}, a run
\* that first meets a halt pc at clock c stops at the smallest power of two that is
\* at least c (64 for c = 37), never earlier, and it does stop; the CPU table then
\* has that many rows.
C2_HaltsAtNextPowerOfTwo ==
    /\ [](Exited => /\ first_halt_clock # -1
                    /\ clock = NextPowerAtLeast(first_halt_clock))
    /\ [](Exited /\ first_halt_clock = 37 => clock = 64)
    /\ [](phase = "returned" => output.cpu_rows = NextPowerAtLeast(first_halt_clock))
    /\ ((first_halt_clock # -1) ~> (phase = "returned"))

\* The halt pc was first met at clock 37 and the returned CPU table has 64 rows.
C2_Witness == phase = "returned" /\ first_halt_clock = 37 /\ output.cpu_rows = 64

\* C10: as long as the pc is never a halt pc the loop never exits and nothing is
\* returned; every step it makes from a non-halt pc is one more transition.
C10_NoHaltPcNoExit ==
    /\ ([](program_counter \notin HaltPCs) => [](phase = "loop" /\ output = None))
    /\ [][phase = "loop" /\ program_counter \notin HaltPCs =>
            clock' = clock + 1 /\ phase' = "loop" /\ output' = None]_vars

\* The pc has never been a halt pc, the clock has passed 1, 2 and 4 and is at the
\* power of two 8, and the loop is still running.
C10_Witness ==
    /\ phase = "loop"
    /\ first_halt_clock = -1
    /\ program_counter \notin HaltPCs
    /\ clock = 8

(***************************************************************************)
(* Properties of the memory-continuation table.                            *)
(***************************************************************************)

NumRows(table) == Len(table[1])
TableRow(table, r) == [c \in 1..Len(table) |-> table[c][r]]
Eval(columns, row) == [k \in 1..Len(columns) |-> Column_eval(columns[k], row)]
BagOfSeq(s) ==
    [x \in {s[i] : i \in DOMAIN s} |-> Cardinality({i \in DOMAIN s : s[i] = x})]

\* A number below 2^32 as a field element, and limb j of a 256-bit value read off
\* its positional notation: bits 32j .. 32j+31.
FieldOf(n) == <<n % Base, n \div Base, 0, 0>>
LimbAt(v, j) == <<v[2 * j + 1], v[2 * j + 2], 0, 0>>
ExpectedTuple(mem_data) ==
    <<FieldOf(mem_data[1].context), FieldOf(mem_data[1].segment), FieldOf(mem_data[1].virt)>>
    \o [k \in 1..8 |-> LimbAt(mem_data[2], k - 1)]

ScenarioA == <<MemoryAddress(0, GlobalMetadata, 5), [U256Zero EXCEPT ![1] = 42]>>

\* C3: for a row buffer of n rows generate_trace returns NUM_COLUMNS columns, all of
\* max(16, smallest power of two >= n) values, a power of two that is at least 16,
\* and the rows after the first n are all zero.
C3_PaddedRowCount ==
    stage = "traced" =>
        LET n == Len(final_values)
            expected == IF NextPowerAtLeast(n) >= 16 THEN NextPowerAtLeast(n) ELSE 16
        IN  /\ Len(trace) = NUM_COLUMNS
            /\ \A c \in 1..Len(trace) : Len(trace[c]) = expected
            /\ expected \in PowersOfTwo /\ expected >= 16
            /\ \A r \in (n + 1)..expected : TableRow(trace, r) = ZeroRow

\* A buffer of 17 rows was padded to 32.
C3_Witness == stage = "traced" /\ Len(final_values) = 17 /\ NumRows(trace) = 32

\* C4: the rows of the table whose filter is 1 carry, as a multiset, exactly the
\* (context, segment, virt, limbs) tuples of the input pairs; every other row has
\* filter 0; these are the tuples ctl_data selects under ctl_filter, whose limb
\* columns are the columns 4..11 the rows were written at. One pair
\* ((0, GlobalMetadata, 5), 42) gives one active row, the first, and 16 rows.
C4_ActiveRowsAreTheInput ==
    stage = "traced" =>
        LET rows == [r \in 1..NumRows(trace) |-> TableRow(trace, r)]
            active == {r \in DOMAIN rows : Column_eval(ctl_filter, rows[r]) = F_ONE}
            activeSeq == SelectSeq(rows, LAMBDA row : Column_eval(ctl_filter, row) = F_ONE)
            selected == [k \in DOMAIN activeSeq |-> Eval(ctl_data, activeSeq[k])]
            expected == [i \in DOMAIN mem_before_values |->
                            ExpectedTuple(mem_before_values[i])]
        IN  /\ \A r \in DOMAIN rows \ active : Column_eval(ctl_filter, rows[r]) = F_ZERO
            /\ Cardinality(active) = Len(mem_before_values)
            /\ BagOfSeq(selected) = BagOfSeq(expected)
            /\ \A j \in 0..7 : ctl_data[4 + j] = Column_single(4 + j)
            /\ mem_before_values = <<ScenarioA>> =>
                    /\ active = {1}
                    /\ NumRows(trace) = 16
                    /\ Eval(ctl_data, rows[1]) =
                          <<F_ZERO, FieldOf(GlobalMetadata), FieldOf(5), FieldOf(42),
                            F_ZERO, F_ZERO, F_ZERO, F_ZERO, F_ZERO, F_ZERO, F_ZERO>>

\* The table of the single pair ((0, GlobalMetadata, 5), 42) has been generated.
C4_Witness ==
    /\ stage = "traced"
    /\ mem_before_values = <<ScenarioA>>
    /\ trace[FILTER + 1][1] = F_ONE
    /\ trace[4 + 1][1] = FieldOf(42)

\* C5: generate_trace on an empty row buffer returns a table of 16 rows, all of
\* whose cells (the filter among them) are zero.
C5_EmptyInputGivesSixteenZeroRows ==
    stage = "traced" /\ final_values = <<>> =>
        /\ Len(trace) = NUM_COLUMNS
        /\ \A c \in 1..Len(trace) : trace[c] = [r \in 1..16 |-> F_ZERO]

\* generate_trace has run on the empty buffer.
C5_Witness == stage = "traced" /\ final_values = <<>> /\ NumRows(trace) = 16

\* C6: generate_trace applied to the rows of a table it returned appends no row and
\* returns the same table.
C6_ShapingIsIdempotent ==
    [][stage = "traced" /\ stage' = "traced" =>
            /\ trace' = trace
            /\ final_values' = transpose(trace)
            /\ NumRows(trace') = Len(final_values')]_vars

\* generate_trace has run again on the 32 padded rows of a 17-row input.
C6_Witness ==
    /\ stage = "traced"
    /\ Len(mem_before_values) = 17
    /\ Len(final_values) = 32
    /\ NumRows(trace) = 32

\* C7: the row of a pair (address, v) holds v as 8 limbs of 32 bits, little-endian:
\* column 4 + j holds bits 32j .. 32j+31 of v, every limb is below 2^32, and the
\* limbs put side by side from limb 0 up are v.
C7_LimbsAreLittleEndian ==
    stage \in {"rows", "traced"} =>
        \A i \in DOMAIN mem_before_values :
            LET v == mem_before_values[i][2]
                row == final_values[i]
                limbs == [j \in 0..7 |-> row[4 + j + 1]]
            IN  /\ VALUE_LIMBS = 8
                /\ Len(row) = 4 + 8
                /\ \A j \in 0..7 :
                    /\ limbs[j] = LimbAt(v, j)
                    /\ limbs[j][3] = 0 /\ limbs[j][4] = 0
                    /\ limbs[j][1] \in 0..(Base - 1) /\ limbs[j][2] \in 0..(Base - 1)
                /\ v = [d \in 1..U256Digits |-> limbs[(d - 1) \div 2][((d - 1) % 2) + 1]]

\* The rows of an input holding the value with 16 different digits have been built.
C7_Witness ==
    /\ stage = "rows"
    /\ \E i \in DOMAIN mem_before_values :
        /\ mem_before_values[i][2] = [d \in 1..U256Digits |-> 4095 * d]
        /\ final_values[i][12] = <<4095 * 15, 4095 * 16, 0, 0>>

RECURSIVE FieldsInOrder(_, _)
FieldsInOrder(map, f) ==
    IF f > Len(map) THEN <<>> ELSE map[f] \o FieldsInOrder(map, f + 1)

\* C8: the column map read field by field in declaration order is 0, 1, 2, ...,
\* N - 1 for N = NUM_POSEIDON_SPONGE_COLUMNS: no two scalar fields share an index,
\* every index below N is used exactly once, and the view has N scalar fields
\* (7 scalars, two arrays of RATE and two of RATE + WIDTH).
C8_ColumnMapIsBijection ==
    rate > 0 =>
        LET N == NUM_POSEIDON_SPONGE_COLUMNS(rate, width)
            map == make_col_map(rate, width)
            slots == {<<f, i>> \in (1..Len(FieldNames)) \X (1..(rate + width)) :
                          i <= Len(map[f])}
        IN  /\ Len(map) = 11
            /\ \A f \in 1..7 : Len(map[f]) = 1
            /\ Len(map[8]) = rate /\ Len(map[9]) = rate
            /\ Len(map[10]) = rate + width /\ Len(map[11]) = width + rate
            /\ FieldsInOrder(map, 1) = [k \in 1..N |-> k - 1]
            /\ {map[s[1]][s[2]] : s \in slots} = 0..(N - 1)
            /\ Cardinality(slots) = N
            /\ N = 7 + 4 * rate + 2 * width
            /\ Len(flat) = N

\* With RATE = 8 and WIDTH = 12 the last element of updated_digest was written
\* through the view and found again through the map, at index 62 of 63.
C8_Witness ==
    /\ rate = 8 /\ width = 12
    /\ Len(flat) = 63
    /\ written = <<11, 20>>
    /\ flat[63] = 2
    /\ make_col_map(rate, width)[11][20] = 62

====
